---------------------------- MODULE Spec2Model ----------------------------
(***************************************************************************)
(* A model of the scrapers of Neuraforesight-Agent:                        *)
(*   - scrappers/chembl_scrapper.py: fetch, fetch_image_svg,               *)
(*     normalize_name, get_chembl_id, process_drug, flatten_record, main   *)
(*   - scrappers/clinical_trials.py: fetch_studies                         *)
(*                                                                         *)
(* Encoding of Python values.  A slot that holds an id or a file body is a *)
(* TLA+ string, with None written NoneId.  A slot that holds a name is a   *)
(* sequence of one-character strings, with a non-string written NotAStr.   *)
(* What fetch returns is a record with a kind field.  A dict is a function *)
(* from its keys; the empty dict is the function with the empty domain.    *)
(***************************************************************************)
EXTENDS Integers, Sequences, FiniteSets, TLC

(***************************************************************************)
(* Bounds of the model.                                                    *)
(***************************************************************************)
NumDrugs == 2
MaxCapacity == 2
MaxFaults == 2
MaxCandidates == 3
MaxPages == 3
MaxRequests == 4
MaxListLen == 2
MaxNameLen == 3

VARIABLES
    sem,        \* asyncio.Semaphore: the permits that are free
    capacity,   \* the value the semaphore was built with
    pc,         \* where each process_drug task is
    loc,        \* the local variables of each process_drug task
    outcome,    \* what each finished task returned or raised
    completed,  \* as_completed: the tasks in the order they finished
    main_pc,    \* where main is
    results,    \* main's results list
    flattened,  \* main's flattened list
    structures, \* structures/<cid>.svg: its text and how often it was written
    main_exc,   \* the exception that left main, if one did
    faults,     \* how many replies of the servers were not the full answer
    absent      \* history: the stages of each task that were answered "absent",
                \* kept while the task runs and once it has returned

VARIABLES
    rs_drug_name, \* get_chembl_id called on its own: the name asked for
    rs_data,      \* the value fetch returned for the search request
    rs_scores,    \* the score the loop computed for each candidate
    rs_result     \* what get_chembl_id returned, Pending before it has

orchVars == <<sem, capacity, pc, loc, outcome, completed, main_pc,
              results, flattened, structures, main_exc, faults, absent>>

VARIABLES
    fs_server,     \* the list endpoint: the reply it gives for each cursor
    fs_pc,         \* where fetch_studies is
    fs_studies,    \* fetch_studies' local list studies
    fs_page_token, \* fetch_studies' local page_token
    fs_log,        \* the requests.get and time.sleep calls made, in order
    fs_return      \* what fetch_studies returned, Pending before it has

VARIABLES
    fl_pc,    \* flatten_record called on its own: "call" before, "done" after
    fl_rec,   \* the record it is called on
    fl_row,   \* the row the call returned
    fl_again  \* the row a second call on the same record returned

VARIABLES
    nm_pc,    \* the two normalize_name called on their own: "call", "done"
    nm_name,  \* the value they are called on
    nm_lower, \* what normalize_name of chembl_scrapper.py returned
    nm_upper  \* what normalize_name of scrapper_drugs@fda_full_100.py returned

resVars == <<rs_drug_name, rs_data, rs_scores, rs_result>>

flVars == <<fl_pc, fl_rec, fl_row, fl_again>>

nmVars == <<nm_pc, nm_name, nm_lower, nm_upper>>

fsVars == <<fs_server, fs_pc, fs_studies, fs_page_token, fs_log, fs_return>>

\* the variables the orchestrator leaves alone
besideOrch == <<resVars, fsVars, flVars, nmVars>>

vars == <<orchVars, resVars, fsVars, flVars, nmVars>>

(***************************************************************************)
(* Python values.                                                          *)
(***************************************************************************)
NoneId == "None"
NotAStr == <<"<not-a-str>">>
EmptyDict == <<>>
PyNone == [kind |-> "none"]
PyText == [kind |-> "text"]
PyDict(b) == [kind |-> "dict", body |-> b]
PyRaise(e) == [kind |-> "raise", exc |-> e]
Unset == [kind |-> "unset"]

\* bool(x) of an id or a file body
Truthy(s) == s # NoneId /\ s # ""

\* isinstance(x, dict)
IsDict(x) == x.kind = "dict"

\* d.get(k, default) of a dict
DictGet(d, k, default) == IF k \in DOMAIN d THEN d[k] ELSE default


\* d.get(k) of a dict whose values are ids or file bodies
IdGet(d, k) == DictGet(d, k, NoneId)

(***************************************************************************)
(* The HTTP replies the servers can give.  A reply is what session.get     *)
(* yields: the transport either fails or delivers a status, a content type *)
(* and a body.                                                             *)
(***************************************************************************)
NetFail == [net |-> "fail"]
NotFound == [net |-> "ok", status |-> 404]
ServerError == [net |-> "ok", status |-> 500]
TextReply == [net |-> "ok", status |-> 200, ctype |-> "text/html", body |-> PyText]
JsonReply(b) == [net |-> "ok", status |-> 200, ctype |-> "application/json", body |-> PyDict(b)]
SvgReply(t) == [net |-> "ok", status |-> 200, ctype |-> "image/svg+xml", text |-> t]

\* r.raise_for_status(): raises for the statuses from 400 on
RaisesForStatus(r) == r.status >= 400

\* fetch: None on 404, an exception on another error status or a transport
\* failure, the text of a body that is not declared JSON, else the parsed body
fetch(r) ==
    IF r.net = "fail" THEN PyRaise("ClientConnectionError")
    ELSE IF r.status = 404 THEN PyNone
    ELSE IF RaisesForStatus(r) THEN PyRaise("ClientResponseError")
    ELSE IF r.ctype # "application/json" THEN PyText
    ELSE r.body

\* fetch_image_svg as chembell_scrapper.py's fetch_image has it: None on 404
fetch_image_returning_none(r) ==
    IF r.net = "fail" THEN PyRaise("ClientConnectionError")
    ELSE IF r.status = 404 THEN [kind |-> "str", text |-> NoneId]
    ELSE IF RaisesForStatus(r) THEN PyRaise("ClientResponseError")
    ELSE [kind |-> "str", text |-> r.text]

\* fetch_image_svg: "" on 404, an exception on another error status or a
\* transport failure, else the text of the body
fetch_image_svg(r) ==
    IF r.net = "fail" THEN PyRaise("ClientConnectionError")
    ELSE IF r.status = 404 THEN [kind |-> "str", text |-> ""]
    ELSE IF RaisesForStatus(r) THEN PyRaise("ClientResponseError")
    ELSE [kind |-> "str", text |-> r.text]

(***************************************************************************)
(* normalize_name: re.sub(r"[\s\-_,.;:/]+", "", s).lower(), and "" for a   *)
(* value that is not a string.                                             *)
(***************************************************************************)
UpperCase == <<"A", "B", "C", "D", "E", "F", "G", "H", "I", "J", "K", "L", "M",
               "N", "O", "P", "Q", "R", "S", "T", "U", "V", "W", "X", "Y", "Z">>
LowerCase == <<"a", "b", "c", "d", "e", "f", "g", "h", "i", "j", "k", "l", "m",
               "n", "o", "p", "q", "r", "s", "t", "u", "v", "w", "x", "y", "z">>

\* the characters the class [\s\-_,.;:/] matches
Separators == {" ", "\t", "\n", "\r", "-", "_", ",", ".", ";", ":", "/"}

\* str.lower() of one character
lower(c) ==
    IF \E i \in 1..Len(UpperCase) : UpperCase[i] = c
    THEN LowerCase[CHOOSE i \in 1..Len(UpperCase) : UpperCase[i] = c]
    ELSE c

RECURSIVE RemoveSeparators(_)
RemoveSeparators(s) ==
    IF s = <<>> THEN <<>>
    ELSE IF Head(s) \in Separators THEN RemoveSeparators(Tail(s))
    ELSE <<Head(s)>> \o RemoveSeparators(Tail(s))

normalize_name(s) ==
    IF s = NotAStr THEN <<>>
    ELSE LET kept == RemoveSeparators(s)
         IN [i \in 1..Len(kept) |-> lower(kept[i])]

(***************************************************************************)
(* get_chembl_id.  A candidate of the search response is a dict that may   *)
(* hold molecule_chembl_id (an id), pref_name (a name), molecule_synonyms  *)
(* (a list of entries, or a value that is not a list) and score.  A JSON   *)
(* number v is held as [kind |-> "number", twice |-> 2v], so that halves   *)
(* can be written; JSON true is [kind |-> "bool", twice |-> 2].            *)
(***************************************************************************)
PyList(items) == [kind |-> "list", items |-> items]
PyNumber(twice) == [kind |-> "number", twice |-> twice]
PyTrue == [kind |-> "bool", twice |-> 2]

\* isinstance(s, (int, float)): a bool is an int
IsIntOrFloat(s) == s.kind \in {"number", "bool"}

\* int(s): the fractional part is dropped, so the value moves towards zero
int(s) == IF s.twice >= 0 THEN s.twice \div 2 ELSE -((-s.twice) \div 2)

\* m.get("pref_name") or ""
PrefName(m) ==
    IF DictGet(m, "pref_name", NotAStr) = NotAStr THEN <<>> ELSE m.pref_name

\* [x.get("molecule_synonym") for x in syn_field if isinstance(x, dict)],
\* and [] when syn_field is not a list
RECURSIVE SynonymsOfDicts(_)
SynonymsOfDicts(items) ==
    IF items = <<>> THEN <<>>
    ELSE IF IsDict(Head(items))
         THEN <<DictGet(Head(items).body, "molecule_synonym", NotAStr)>>
              \o SynonymsOfDicts(Tail(items))
         ELSE SynonymsOfDicts(Tail(items))

Synonyms(m) ==
    IF DictGet(m, "molecule_synonyms", PyNone).kind = "list"
    THEN SynonymsOfDicts(m.molecule_synonyms.items)
    ELSE <<>>

\* the synonym score with a `break` after the first match: 80 at most
SynonymScoreCapped(syns, target_norm) ==
    IF \E k \in 1..Len(syns) : normalize_name(syns[k]) = target_norm THEN 80 ELSE 0

\* for syn in syns: if normalize_name(syn) == target_norm: score += 80
RECURSIVE SynonymScore(_, _)
SynonymScore(syns, target_norm) ==
    IF syns = <<>> THEN 0
    ELSE (IF normalize_name(Head(syns)) = target_norm THEN 80 ELSE 0)
         + SynonymScore(Tail(syns), target_norm)

\* the score added for m.get("score")
ExternalScore(m) ==
    IF IsIntOrFloat(DictGet(m, "score", PyNone)) THEN int(m.score) ELSE 0

\* the score of one candidate: the body of the loop up to the comparison
CandidateScore(m, target_norm) ==
    (IF normalize_name(PrefName(m)) = target_norm THEN 100 ELSE 0)
    + SynonymScore(Synonyms(m), target_norm)
    + ExternalScore(m)

\* best_score = -1 before the loop
InitialBestScore == -1

\* if score > best_score
Beats(score, best_score) == score > best_score

\* the loop over molecules from candidate i on, with best and best_score
RECURSIVE ScanMolecules(_, _, _, _, _)
ScanMolecules(molecules, i, best, best_score, target_norm) ==
    IF i > Len(molecules) THEN [best |-> best, best_score |-> best_score]
    ELSE IF Beats(CandidateScore(molecules[i], target_norm), best_score)
         THEN ScanMolecules(molecules, i + 1,
                            IdGet(molecules[i], "molecule_chembl_id"),
                            CandidateScore(molecules[i], target_norm),
                            target_norm)
         ELSE ScanMolecules(molecules, i + 1, best, best_score, target_norm)

\* if not data
Falsy(data) ==
    \/ data.kind = "none"
    \/ data.kind = "dict" /\ DOMAIN data.body = {}

\* `return best` alone, without the fall back to the first candidate
BestWithoutFallback(best, molecules) == best

\* if best: return best;  return molecules[0].get("molecule_chembl_id")
BestOrFirst(best, molecules) ==
    IF Truthy(best) THEN best ELSE IdGet(molecules[1], "molecule_chembl_id")

\* get_chembl_id on the value fetch returned
get_chembl_id(data, drug_name) ==
    IF Falsy(data) THEN NoneId
    ELSE IF data.kind = "text" THEN NoneId
    ELSE IF DictGet(data.body, "molecules", <<>>) = <<>> THEN NoneId
    ELSE BestOrFirst(ScanMolecules(data.body.molecules, 1, NoneId, InitialBestScore,
                                   normalize_name(drug_name)).best,
                     data.body.molecules)

(***************************************************************************)
(* flatten_record.  A record is a dict: the record of a resolved drug has  *)
(* the seven keys process_drug gives it, the record of a drug that was not *)
(* found has drug_name, chembl_id and error.                               *)
(***************************************************************************)
\* rec.get("molecule") or {}, mol.get("molecule_properties") or {}, ...
DictOrEmpty(d, k) ==
    LET v == DictGet(d, k, PyNone) IN IF v = PyNone THEN EmptyDict ELSE v

\* len(rec.get(k)) with a list of one element for a key that is absent
LenOrOne(d, k) == Len(DictGet(d, k, <<"?">>))

\* len(rec.get(k) or [])
LenOrZero(d, k) == Len(DictGet(d, k, <<>>))

flatten_record(rec) ==
    LET mol == DictOrEmpty(rec, "molecule")
        props == DictOrEmpty(mol, "molecule_properties")
        structs == DictOrEmpty(mol, "molecule_structures")
    IN [drug_name |-> DictGet(rec, "drug_name", NotAStr),
        chembl_id |-> IdGet(rec, "chembl_id"),
        pref_name |-> IdGet(mol, "pref_name"),
        max_phase |-> IdGet(mol, "max_phase"),
        first_approval |-> IdGet(mol, "first_approval"),
        molecule_type |-> IdGet(mol, "molecule_type"),
        therapeutic_flag |-> IdGet(mol, "therapeutic_flag"),
        oral |-> IdGet(mol, "oral"),
        parenteral |-> IdGet(mol, "parenteral"),
        topical |-> IdGet(mol, "topical"),
        molecule_form |-> IdGet(mol, "structure_type"),
        full_mwt |-> IdGet(props, "full_mwt"),
        alogp |-> IdGet(props, "alogp"),
        cx_logp |-> IdGet(props, "cx_logp"),
        hba |-> IdGet(props, "hba"),
        hbd |-> IdGet(props, "hbd"),
        psa |-> IdGet(props, "psa"),
        rtb |-> IdGet(props, "rtb"),
        full_molformula |-> IdGet(props, "full_molformula"),
        canonical_smiles |-> IdGet(structs, "canonical_smiles"),
        standard_inchi |-> IdGet(structs, "standard_inchi"),
        standard_inchi_key |-> IdGet(structs, "standard_inchi_key"),
        activities_count |-> LenOrZero(rec, "activities"),
        mechanisms_count |-> LenOrZero(rec, "mechanism"),
        has_drug_record |-> DOMAIN DictOrEmpty(rec, "drug") # {}]

(***************************************************************************)
(* The input of main and the data the ChEMBL server holds.                 *)
(***************************************************************************)
\* df["Drug Name"].dropna().astype(str).unique(): distinct strings
DrugNames == << <<"A", "s", "a">>,
                <<"a", "-", "S", "A">>,
                <<"I", "b", "u">>,
                <<"W", "a", "r">> >>

Units == 1..NumDrugs

\* the candidates the search endpoint holds for a name
SearchHits(name) ==
    IF normalize_name(name) = <<"a", "s", "a">>
    THEN << [molecule_chembl_id |-> "CHEMBL25",
             pref_name |-> <<"A", "S", "A">>,
             score |-> PyNumber(24)] >>
    ELSE << [molecule_chembl_id |-> "CHEMBL521",
             pref_name |-> <<"I", "B", "U">>,
             score |-> PyNumber(17)],
            [molecule_chembl_id |-> "CHEMBL1464",
             pref_name |-> name,
             score |-> PyNumber(10)] >>

\* a candidate list whose candidates carry no id
HitsWithoutId == << [pref_name |-> <<"X">>, score |-> PyNumber(2)] >>

MoleculeDoc ==
    [pref_name |-> "ASPIRIN", max_phase |-> "4", molecule_type |-> "Small molecule",
     molecule_properties |-> [full_mwt |-> "180.16", alogp |-> "1.31"],
     molecule_structures |-> [canonical_smiles |-> "CC(=O)Oc1ccccc1C(=O)O"]]
DrugDoc == [development_phase |-> "4"]
MechanismDoc == [mechanisms |-> <<"cyclooxygenase inhibitor">>]
ActivityDoc == [activities |-> <<"IC50", "Ki">>]
SvgText == "<svg/>"

\* what the server can answer to the request of each stage; the first
\* reply of each list is the full answer
FullSearchReply(name) == JsonReply([molecules |-> SearchHits(name)])

SearchReplies(name) ==
    {FullSearchReply(name), NetFail, NotFound, ServerError, TextReply,
     JsonReply(EmptyDict), JsonReply([molecules |-> <<>>]),
     JsonReply([molecules |-> HitsWithoutId])}

FullFetchReply(stage) ==
    CASE stage = "molecule" -> JsonReply(MoleculeDoc)
      [] stage = "drug" -> JsonReply(DrugDoc)
      [] stage = "mechanism" -> JsonReply(MechanismDoc)
      [] stage = "activity" -> JsonReply(ActivityDoc)

FetchReplies(stage) ==
    {FullFetchReply(stage), NetFail, NotFound, ServerError}
    \cup (IF stage = "molecule" THEN {TextReply} ELSE {})

FullSvgReply == SvgReply(SvgText)

SvgReplies == {FullSvgReply, NetFail, NotFound, ServerError}

(***************************************************************************)
(* process_drug: one task per drug name.  pc[u] is "start" before the task *)
(* has entered `async with sem`, the name of a stage while the request of  *)
(* that stage is outstanding, and "returned", "raised" or "cancelled" once *)
(* the task is over.                                                       *)
(***************************************************************************)
Stages == <<"search", "molecule", "drug", "mechanism", "activity", "svg">>
InSem == {Stages[i] : i \in 1..Len(Stages)}
Running == InSem \cup {"start"}
Over == {"returned", "raised", "cancelled"}

\* the requests in another order: the drug request before the molecule one
NextStageDrugFirst(stage) ==
    LET other == <<"search", "drug", "molecule", "mechanism", "activity", "svg">>
    IN other[(CHOOSE i \in 1..Len(other) : other[i] = stage) + 1]

NextStage(stage) == Stages[(CHOOSE i \in 1..Len(Stages) : Stages[i] = stage) + 1]

NoLocals == [cid |-> NoneId, molecule |-> Unset, drug |-> Unset,
             mechanism |-> Unset, activity |-> Unset]
NoOutcome == [kind |-> "none"]

\* the record of a drug whose id was not found, as chembell_scrapper.py has
\* it: without the chembl_id key, and with the lists filled in
NotFoundRecordWithLists(drug_name) ==
    [drug_name |-> drug_name, error |-> "not_found",
     mechanism |-> <<"?">>, activities |-> <<"?">>]

\* the record of a drug whose id was not found
NotFoundRecord(drug_name) ==
    [drug_name |-> drug_name, chembl_id |-> NoneId, error |-> "not_found"]

\* X if isinstance(X, dict) else {}
DictOrElseEmpty(x) == IF IsDict(x) THEN x.body ELSE EmptyDict

\* X.get(k, []) if isinstance(X, dict), else []
ListOfDict(x, k) == IF IsDict(x) THEN DictGet(x.body, k, <<>>) ELSE <<>>

\* the record of a resolved drug
DrugRecord(drug_name, l, svg) ==
    [drug_name |-> drug_name,
     chembl_id |-> l.cid,
     molecule |-> DictOrElseEmpty(l.molecule),
     drug |-> DictOrElseEmpty(l.drug),
     mechanism |-> ListOfDict(l.mechanism, "mechanisms"),
     activities |-> ListOfDict(l.activity, "activities"),
     structure_svg |-> svg]

\* a reply that says "absent": status 404, or a JSON body that is empty or
\* holds an empty candidate list
AbsentReply(r) ==
    /\ r.net = "ok"
    /\ \/ r.status = 404
       \/ /\ r.status = 200
          /\ r.ctype = "application/json"
          /\ \/ DOMAIN r.body.body = {}
             \/ DictGet(r.body.body, "molecules", <<"-">>) = <<>>

\* a reply on which fetch and fetch_image_svg raise
RaisingReply(r) == r.net = "fail" \/ RaisesForStatus(r)

\* the server gives reply r to task u, where full is the full answer: a reply
\* that is not the full answer takes one of the MaxFaults such replies of a run
Replies(u, r, full) ==
    /\ r # full => faults < MaxFaults
    /\ faults' = IF r = full THEN faults ELSE faults + 1
    /\ absent' = IF AbsentReply(r) THEN [absent EXCEPT ![u] = @ \cup {pc[u]}]
                 ELSE IF RaisingReply(r) THEN [absent EXCEPT ![u] = {}]
                 ELSE absent

\* Semaphore.locked()
Locked(value) == value = 0

\* process_drug without `async with sem`, as chembell_scrapper.py has it: the
\* task issues the search request at once
AcquireWithoutPermit(u) ==
    /\ pc[u] = "start"
    /\ pc' = [pc EXCEPT ![u] = "search"]
    /\ UNCHANGED <<sem, capacity, loc, outcome, completed, main_pc, results,
                   flattened, structures, main_exc, faults, absent>>
    /\ UNCHANGED besideOrch

\* async with sem: the task waits while no permit is free, takes one and
\* issues the search request
Acquire(u) ==
    /\ pc[u] = "start"
    /\ ~Locked(sem)
    /\ sem' = sem - 1
    /\ pc' = [pc EXCEPT ![u] = "search"]
    /\ UNCHANGED <<capacity, loc, outcome, completed, main_pc, results,
                   flattened, structures, main_exc, faults, absent>>
    /\ UNCHANGED besideOrch

\* the task returns rec: `async with sem` releases the permit on the way out
TaskReturns(u, rec) ==
    /\ pc' = [pc EXCEPT ![u] = "returned"]
    /\ outcome' = [outcome EXCEPT ![u] = [kind |-> "result", rec |-> rec]]
    /\ sem' = sem + 1
    /\ completed' = Append(completed, u)
    /\ loc' = [loc EXCEPT ![u] = NoLocals]

\* an exception ends the task without the release of `async with sem`
TaskRaisesHoldingPermit(u, exc) ==
    /\ pc' = [pc EXCEPT ![u] = "raised"]
    /\ outcome' = [outcome EXCEPT ![u] = [kind |-> "exception", exc |-> exc]]
    /\ completed' = Append(completed, u)
    /\ loc' = [loc EXCEPT ![u] = NoLocals]
    /\ UNCHANGED sem

\* an exception leaves the task: process_drug has no handler, so it leaves
\* `async with sem`, which releases the permit, and ends the task
TaskRaises(u, exc) ==
    /\ pc' = [pc EXCEPT ![u] = "raised"]
    /\ outcome' = [outcome EXCEPT ![u] = [kind |-> "exception", exc |-> exc]]
    /\ sem' = sem + 1
    /\ completed' = Append(completed, u)
    /\ loc' = [loc EXCEPT ![u] = NoLocals]

\* the task goes on to the request of the next stage
TaskProceeds(u, l) ==
    /\ pc' = [pc EXCEPT ![u] = NextStage(pc[u])]
    /\ loc' = [loc EXCEPT ![u] = l]
    /\ UNCHANGED <<sem, outcome, completed>>

\* cid = await get_chembl_id(session, drug_name); if not cid: return {...}
\* with r the reply to the search request
SearchReturnsWith(u, r) ==
    /\ pc[u] = "search"
    /\ Replies(u, r, FullSearchReply(DrugNames[u]))
    /\ LET data == fetch(r)
           cid == get_chembl_id(data, DrugNames[u])
       IN IF data.kind = "raise"
          THEN TaskRaises(u, data.exc)
          ELSE IF ~Truthy(cid)
          THEN TaskReturns(u, NotFoundRecord(DrugNames[u]))
          ELSE TaskProceeds(u, [loc[u] EXCEPT !.cid = cid])
    /\ UNCHANGED <<capacity, main_pc, results, flattened, structures, main_exc>>
    /\ UNCHANGED besideOrch

SearchReturns(u) == \E r \in SearchReplies(DrugNames[u]) : SearchReturnsWith(u, r)

\* molecule, drug, mech, act = await fetch(...) with r the reply
FetchReturnsWith(u, r) ==
    /\ pc[u] \in {"molecule", "drug", "mechanism", "activity"}
    /\ Replies(u, r, FullFetchReply(pc[u]))
    /\ LET data == fetch(r)
       IN IF data.kind = "raise"
          THEN TaskRaises(u, data.exc)
          ELSE TaskProceeds(u, [loc[u] EXCEPT ![pc[u]] = data])
    /\ UNCHANGED <<capacity, main_pc, results, flattened, structures, main_exc>>
    /\ UNCHANGED besideOrch

FetchReturns(u) ==
    /\ pc[u] \in {"molecule", "drug", "mechanism", "activity"}
    /\ \E r \in FetchReplies(pc[u]) : FetchReturnsWith(u, r)

\* svg = await fetch_image_svg(session, cid); return {...} with r the reply
SvgReturnsWith(u, r) ==
    /\ pc[u] = "svg"
    /\ Replies(u, r, FullSvgReply)
    /\ LET svg == fetch_image_svg(r)
       IN IF svg.kind = "raise"
          THEN TaskRaises(u, svg.exc)
          ELSE TaskReturns(u, DrugRecord(DrugNames[u], loc[u], svg.text))
    /\ UNCHANGED <<capacity, main_pc, results, flattened, structures, main_exc>>
    /\ UNCHANGED besideOrch

SvgReturns(u) == \E r \in SvgReplies : SvgReturnsWith(u, r)

(***************************************************************************)
(* main: the loop over asyncio.as_completed(tasks).                        *)
(***************************************************************************)
Cids == {"CHEMBL25", "CHEMBL521", "CHEMBL1464"}
NoFile == [writes |-> 0, text |-> ""]

\* an exception leaves main: asyncio.run cancels the tasks that still run,
\* and a cancelled task inside `async with sem` releases its permit
MainRaises(exc) ==
    /\ main_pc' = "raised"
    /\ main_exc' = exc
    /\ pc' = [u \in Units |-> IF pc[u] \in Running THEN "cancelled" ELSE pc[u]]
    /\ loc' = [u \in Units |-> NoLocals]
    /\ sem' = sem + Cardinality({u \in Units : pc[u] \in InSem})
    /\ absent' = [u \in Units |-> IF pc[u] \in Running THEN {} ELSE absent[u]]
    /\ UNCHANGED <<capacity, outcome, completed, results, flattened, structures,
                   faults>>
    /\ UNCHANGED besideOrch

\* rec = await fut; results.append(rec); then either the svg is to be
\* written or flatten_record(rec) is appended
MainAwait ==
    /\ main_pc = "loop"
    /\ Len(results) < Len(completed)
    /\ LET u == completed[Len(results) + 1] IN
        IF outcome[u].kind = "exception"
        THEN MainRaises(outcome[u].exc)
        ELSE /\ results' = Append(results, outcome[u].rec)
             /\ IF Truthy(IdGet(outcome[u].rec, "chembl_id"))
                   /\ Truthy(IdGet(outcome[u].rec, "structure_svg"))
                THEN /\ main_pc' = "write_svg"
                     /\ UNCHANGED flattened
                ELSE /\ main_pc' = "loop"
                     /\ flattened' = Append(flattened, flatten_record(outcome[u].rec))
             /\ UNCHANGED <<sem, capacity, pc, loc, outcome, completed, structures,
                            main_exc, faults, absent>>
             /\ UNCHANGED besideOrch

\* async with aiofiles.open(f"structures/{cid}.svg", "w") as f: await
\* f.write(svg); flattened.append(flatten_record(rec)).  Opening or
\* writing the file can fail with an OSError, which main does not handle.
MainWriteSvg ==
    /\ main_pc = "write_svg"
    /\ \/ /\ structures' = [structures EXCEPT
                ![results[Len(results)].chembl_id] =
                    [writes |-> @.writes + 1,
                     text |-> results[Len(results)].structure_svg]]
          /\ flattened' = Append(flattened, flatten_record(results[Len(results)]))
          /\ main_pc' = "loop"
          /\ UNCHANGED <<sem, capacity, pc, loc, outcome, completed, results,
                         main_exc, faults, absent>>
          /\ UNCHANGED besideOrch
       \/ MainRaises("OSError")

\* the loop is over: chembl_results.json and chembl.csv are written
MainDump ==
    /\ main_pc = "loop"
    /\ Len(results) = NumDrugs
    /\ main_pc' = "done"
    /\ UNCHANGED <<sem, capacity, pc, loc, outcome, completed, results,
                   flattened, structures, main_exc, faults, absent>>
    /\ UNCHANGED besideOrch

\* get_chembl_id has not been called on its own
Pending == "<pending>"
ResolverIdle ==
    /\ rs_drug_name = <<>>
    /\ rs_data = PyNone
    /\ rs_scores = <<>>
    /\ rs_result = Pending

\* main up to the loop, with a semaphore of c permits
MainStarts(permits) ==
    /\ capacity = permits
    /\ sem = capacity
    /\ pc = [u \in Units |-> "start"]
    /\ loc = [u \in Units |-> NoLocals]
    /\ outcome = [u \in Units |-> NoOutcome]
    /\ completed = <<>>
    /\ main_pc = "loop"
    /\ results = <<>>
    /\ flattened = <<>>
    /\ structures = [c \in Cids |-> NoFile]
    /\ main_exc = "none"
    /\ faults = 0
    /\ absent = [u \in Units |-> {}]

\* fetch_studies is not called
StudiesIdle ==
    /\ fs_server = <<>>
    /\ fs_pc = "idle"
    /\ fs_studies = <<>>
    /\ fs_page_token = NoneId
    /\ fs_log = <<>>
    /\ fs_return = Pending

\* flatten_record and the normalizers are not called on their own
FlattenIdle ==
    /\ fl_pc = "idle"
    /\ fl_rec = EmptyDict
    /\ fl_row = EmptyDict
    /\ fl_again = EmptyDict

NormalizerIdle ==
    /\ nm_pc = "idle"
    /\ nm_name = <<>>
    /\ nm_lower = <<>>
    /\ nm_upper = <<>>

Init ==
    /\ \E c \in 1..MaxCapacity : MainStarts(c)
    /\ ResolverIdle
    /\ StudiesIdle
    /\ FlattenIdle
    /\ NormalizerIdle

Next ==
    \/ \E u \in Units : Acquire(u)
    \/ \E u \in Units : SearchReturns(u)
    \/ \E u \in Units : FetchReturns(u)
    \/ \E u \in Units : SvgReturns(u)
    \/ MainAwait
    \/ MainWriteSvg
    \/ MainDump

Spec == Init /\ [][Next]_vars

(***************************************************************************)
(* Claims about the orchestrator, checked under Spec.                      *)
(***************************************************************************)
NetworkExceptions == {"ClientConnectionError", "ClientResponseError"}

\* the run of main is over
RunOver == main_pc \in {"done", "raised"}

\* the names of the records main has collected
CollectedNames == [i \in 1..Len(results) |-> results[i].drug_name]

\* C1: whatever the network calls of a run do, when the run is over (and no
\* file write failed) results holds exactly one record per input name.
C1_OneRecordPerName ==
    (RunOver /\ main_exc # "OSError") =>
        /\ Len(results) = NumDrugs
        /\ \A u \in Units : \E i \in 1..Len(results) : results[i].drug_name = DrugNames[u]

\* C2: a failing network call of a task is caught in the task and becomes a
\* record with an error field: no exception leaves a task, no task is
\* cancelled, and no network exception ends main's loop.
C2_FailureStaysInUnit ==
    /\ \A u \in Units : pc[u] \notin {"raised", "cancelled"} \/ main_exc = "OSError"
    /\ main_exc \notin NetworkExceptions

\* the tasks that have a request outstanding
Outstanding == {u \in Units : pc[u] \in InSem}

\* C3: at most `capacity` tasks have a request outstanding, and every task
\* with a request outstanding holds a permit taken from the pool.
C3_ConcurrencyBound ==
    /\ Cardinality(Outstanding) <= capacity
    /\ sem >= 0
    /\ sem + Cardinality(Outstanding) = capacity

\* the pool is exhausted while another task waits for a permit
C3_Witness ==
    /\ Cardinality(Outstanding) = capacity
    /\ \E u \in Units : pc[u] = "start"
    /\ \E u \in Units : pc[u] = "svg"

\* the place of a stage in the order of the requests
StageIndex(stage) == CHOOSE i \in 1..Len(Stages) : Stages[i] = stage

\* C8: a task whose search was answered 404, with no body or with an empty
\* candidate list is over at once: it has returned, no later request of it
\* was ever outstanding or answered, and its record has no chembl_id, an
\* error, and no list fields, so that the flattened counts are 0.
C8_NotFoundIsTerminal ==
    \A u \in Units : "search" \in absent[u] =>
        /\ pc[u] = "returned"
        /\ absent[u] = {"search"}
        /\ outcome[u].kind = "result"
        /\ ~Truthy(IdGet(outcome[u].rec, "chembl_id"))
        /\ "error" \in DOMAIN outcome[u].rec
        /\ LenOrZero(outcome[u].rec, "activities") = 0
        /\ LenOrZero(outcome[u].rec, "mechanism") = 0
        /\ flatten_record(outcome[u].rec).activities_count = 0
        /\ flatten_record(outcome[u].rec).mechanisms_count = 0

\* main has collected and flattened the record of a drug whose search was
\* answered "absent", and the run is over
C8_Witness ==
    /\ main_pc = "done"
    /\ \E u \in Units : \E i \in 1..Len(flattened) :
        /\ "search" \in absent[u]
        /\ results[i] = outcome[u].rec
        /\ flattened[i].chembl_id = NoneId
        /\ \E v \in Units : v # u /\ Truthy(IdGet(outcome[v].rec, "chembl_id"))

\* the field of a record that the request of a stage fills, at its default
FieldIsDefault(rec, stage) ==
    CASE stage = "molecule" -> rec.molecule = EmptyDict
      [] stage = "drug" -> rec.drug = EmptyDict
      [] stage = "mechanism" -> rec.mechanism = <<>>
      [] stage = "activity" -> rec.activities = <<>>
      [] stage = "svg" -> rec.structure_svg = ""

\* C9: a resolved task whose molecule, drug, mechanism, activity or svg
\* request was answered 404 goes on: it does not fail, the requests of the
\* later stages are issued, and the record it returns has the default value
\* in the field of every stage answered 404 and no error.
C9_AbsentFieldsDefault ==
    \A u \in Units : (absent[u] # {} /\ "search" \notin absent[u]) =>
        /\ pc[u] \in InSem \cup {"returned"}
        /\ pc[u] \in InSem => \A s \in absent[u] : StageIndex(s) < StageIndex(pc[u])
        /\ pc[u] = "returned" =>
            /\ outcome[u].kind = "result"
            /\ Truthy(IdGet(outcome[u].rec, "chembl_id"))
            /\ "error" \notin DOMAIN outcome[u].rec
            /\ \A s \in absent[u] : FieldIsDefault(outcome[u].rec, s)

\* a task has returned a record in which two queries at once were absent,
\* one of them the svg, and the others were not
C9_Witness ==
    \E u \in Units :
        /\ pc[u] = "returned"
        /\ Cardinality(absent[u]) >= 2
        /\ "svg" \in absent[u]
        /\ "search" \notin absent[u]
        /\ \E s \in {"molecule", "drug", "mechanism", "activity"} :
            s \notin absent[u] /\ ~FieldIsDefault(outcome[u].rec, s)

\* C11: within one run the file structures/<cid>.svg of an id is written at
\* most once; a second persist for the same id does not write it again.
C11_AssetWrittenAtMostOnce ==
    \A c \in Cids : structures[c].writes <= 1

\* C12: a failure while writing an svg file does not leave the collection
\* loop: main never ends with the OSError of the write.
C12_WriteFailureIsCaught ==
    main_exc # "OSError"

\* a record for which main writes an svg file
HasAsset(rec) ==
    Truthy(IdGet(rec, "chembl_id")) /\ Truthy(IdGet(rec, "structure_svg"))

\* C13, as claimed: the svg of an entity is persisted before its task
\* releases the permit and before its record is appended to results: the
\* file of every returned or collected record that has an asset is written.
C13_PersistedBeforeReleaseAndCollect ==
    /\ \A u \in Units :
           (pc[u] = "returned" /\ HasAsset(outcome[u].rec))
           => structures[outcome[u].rec.chembl_id].writes >= 1
    /\ \A i \in 1..Len(results) :
           HasAsset(results[i]) => structures[results[i].chembl_id].writes >= 1

\* C13, amended: for every task the order is permit acquired, search,
\* molecule, drug, mechanism, activity and svg requests, permit released,
\* record appended to results by main, svg file written, record flattened:
\* the file is written after the release and after the append.
C13_StageOrder ==
    /\ \A u \in Units :
           pc[u] \in InSem =>
               /\ sem + Cardinality(Outstanding) = capacity
               /\ Truthy(loc[u].cid) <=> StageIndex(pc[u]) > 1
               /\ \A j \in 2..5 :
                      loc[u][Stages[j]] # Unset <=> j < StageIndex(pc[u])
    /\ Len(results) <= Len(completed)
    /\ \A i \in 1..Len(results) :
           /\ pc[completed[i]] = "returned"
           /\ results[i] = outcome[completed[i]].rec
    /\ Len(flattened) =
           IF main_pc = "write_svg" \/ main_exc = "OSError"
           THEN Len(results) - 1 ELSE Len(results)
    /\ main_pc = "write_svg" => HasAsset(results[Len(results)])
    /\ \A c \in Cids :
           structures[c].writes =
               Cardinality({i \in 1..Len(flattened) :
                               HasAsset(results[i]) /\ results[i].chembl_id = c})

\* a file has been written and its record flattened while another task
\* still holds a permit
C13_Witness ==
    /\ \E c \in Cids : structures[c].writes = 1
    /\ Len(flattened) = 1
    /\ main_pc = "loop"
    /\ \E u \in Units : pc[u] = "activity"

\* the permits that are taken from the pool
PermitsHeld == capacity - sem

\* C14: a task gives its permit back on every way out of `async with sem`
\* (return of a record, early not_found return, exception of a request,
\* cancellation): the permits held are exactly those of the tasks between
\* acquire and exit, never more than the tasks still running, never less
\* than 0 and never more than capacity.
C14_PermitReleasedOnEveryExit ==
    /\ PermitsHeld = Cardinality({u \in Units : pc[u] \notin Over /\ pc[u] # "start"})
    /\ PermitsHeld <= Cardinality({u \in Units : pc[u] \in Running})
    /\ PermitsHeld >= 0
    /\ PermitsHeld <= capacity
    /\ (\A u \in Units : pc[u] \in Over) => sem = capacity

\* one task ended by an exception of a request, another by the early
\* not_found return, and every permit is back in the pool
C14_Witness ==
    /\ \E u \in Units : pc[u] = "raised" /\ outcome[u].exc \in NetworkExceptions
    /\ \E u \in Units : pc[u] = "returned" /\ "error" \in DOMAIN outcome[u].rec
    /\ sem = capacity

(***************************************************************************)
(* The run under fair scheduling with a network whose calls all return     *)
(* without raising: every reply is a success or a 404.  The event loop     *)
(* runs every task and main that can take a step; the write of an svg      *)
(* file can still fail.                                                    *)
(***************************************************************************)
SearchReturnsQuietly(u) ==
    \E r \in SearchReplies(DrugNames[u]) :
        ~RaisingReply(r) /\ SearchReturnsWith(u, r)

FetchReturnsQuietly(u) ==
    /\ pc[u] \in {"molecule", "drug", "mechanism", "activity"}
    /\ \E r \in FetchReplies(pc[u]) : ~RaisingReply(r) /\ FetchReturnsWith(u, r)

SvgReturnsQuietly(u) ==
    \E r \in SvgReplies : ~RaisingReply(r) /\ SvgReturnsWith(u, r)

NextQuiet ==
    \/ \E u \in Units : Acquire(u)
    \/ \E u \in Units : SearchReturnsQuietly(u)
    \/ \E u \in Units : FetchReturnsQuietly(u)
    \/ \E u \in Units : SvgReturnsQuietly(u)
    \/ MainAwait
    \/ MainWriteSvg
    \/ MainDump

FairScheduling ==
    /\ \A u \in Units : WF_vars(Acquire(u))
    /\ \A u \in Units : WF_vars(SearchReturnsQuietly(u))
    /\ \A u \in Units : WF_vars(FetchReturnsQuietly(u))
    /\ \A u \in Units : WF_vars(SvgReturnsQuietly(u))
    /\ WF_vars(MainAwait)
    /\ WF_vars(MainWriteSvg)
    /\ WF_vars(MainDump)

SpecQuiet == Init /\ [][NextQuiet]_vars /\ FairScheduling

\* C18: under fair scheduling and with network calls that never raise, every
\* task eventually completes and the run eventually reaches the point where
\* chembl_results.json is written, with every permit free.
C18_RunReachesDump ==
    <>(/\ main_pc = "done"
       /\ \A u \in Units : pc[u] = "returned"
       /\ sem = capacity)

(***************************************************************************)
(* get_chembl_id on its own: the name and the search response are drawn    *)
(* from the sets below, ResolverCall applies the function.                 *)
(***************************************************************************)
Asa == <<"A", "s", "a">>
Ibu == <<"I", "b", "u">>
ASA == <<"A", "S", "A">>
IBU == <<"I", "B", "U">>
WAR == <<"W", "A", "R">>
AsaSpelled == <<"a", "-", "s", " ", "A">>

\* the names asked for; the last one normalizes to the empty string
Queries == {Asa, Ibu, <<"-", "/">>}

\* an entry of molecule_synonyms
Synonym(name) == PyDict([molecule_synonym |-> name])

\* a dict from the parts that are present
Parts(id, pref, syns, score) == id @@ pref @@ syns @@ score

\* candidates that differ in id and in score: for the name Asa they score
\* 100 (by the preferred name), 100 (by a synonym and the external score),
\* -5 and -2
PoolIds == {<<>>, [molecule_chembl_id |-> "CHEMBL25"],
            [molecule_chembl_id |-> "CHEMBL521"]}
PoolProfiles ==
    {[pref_name |-> ASA],
     [pref_name |-> IBU, molecule_synonyms |-> PyList(<<Synonym(AsaSpelled)>>),
      score |-> PyNumber(40)],
     [pref_name |-> WAR, score |-> PyNumber(-10)],
     [pref_name |-> WAR, score |-> PyNumber(-4)]}
Pool ==
    {id @@ profile : id \in PoolIds, profile \in PoolProfiles}
    \cup {[molecule_chembl_id |-> "", pref_name |-> ASA]}

PoolLists == UNION {[1..n -> Pool] : n \in 1..MaxCandidates}

\* single candidates that differ in every field the score reads
RichPrefs == {<<>>} \cup {[pref_name |-> n] : n \in {NotAStr, <<>>, ASA, AsaSpelled, IBU}}
RichSynonyms ==
    {<<>>, [molecule_synonyms |-> PyNone]}
    \cup {[molecule_synonyms |-> PyList(items)] : items \in
            {<<>>,
             <<Synonym(Asa)>>,
             <<Synonym(AsaSpelled), Synonym(ASA)>>,
             <<PyText, Synonym(Asa), Synonym(IBU)>>,
             <<PyDict(EmptyDict), Synonym(NotAStr)>>}}
RichScores ==
    {<<>>} \cup {[score |-> v] : v \in
                    {PyNone, PyText, PyTrue, PyNumber(24), PyNumber(-6),
                     PyNumber(5), PyNumber(-5)}}
RichLists ==
    {<<Parts([molecule_chembl_id |-> "CHEMBL25"], pref, syns, score)>> :
        pref \in RichPrefs, syns \in RichSynonyms, score \in RichScores}

\* the values fetch can return for the search request
SearchData ==
    {PyNone, PyText, PyDict(EmptyDict), PyDict([molecules |-> <<>>])}
    \cup {PyDict([molecules |-> l]) : l \in PoolLists \cup RichLists}

\* the candidates of a value fetch returned
MoleculesOf(data) ==
    IF IsDict(data) THEN DictGet(data.body, "molecules", <<>>) ELSE <<>>

\* get_chembl_id(session, drug_name), with the scores its loop computes
ResolverCall ==
    /\ rs_result = Pending
    /\ rs_result' = get_chembl_id(rs_data, rs_drug_name)
    /\ rs_scores' = [i \in 1..Len(MoleculesOf(rs_data)) |->
                        CandidateScore(MoleculesOf(rs_data)[i],
                                       normalize_name(rs_drug_name))]
    /\ UNCHANGED <<rs_drug_name, rs_data>>
    /\ UNCHANGED <<orchVars, fsVars, flVars, nmVars>>

InitResolver ==
    /\ MainStarts(1)
    /\ rs_drug_name \in Queries
    /\ rs_data \in SearchData
    /\ rs_scores = <<>>
    /\ rs_result = Pending
    /\ StudiesIdle
    /\ FlattenIdle
    /\ NormalizerIdle

NextResolver == ResolverCall

SpecResolver == InitResolver /\ [][NextResolver]_vars

(***************************************************************************)
(* Claims about get_chembl_id, checked under SpecResolver.                 *)
(***************************************************************************)
Resolved == rs_result # Pending
RsMolecules == MoleculesOf(rs_data)
RsCount == Len(RsMolecules)
RsId(i) == IdGet(RsMolecules[i], "molecule_chembl_id")
RsTarget == normalize_name(rs_drug_name)

\* the highest score, and the first candidate that has it
MaxScore == CHOOSE x \in {rs_scores[i] : i \in 1..RsCount} :
                \A i \in 1..RsCount : rs_scores[i] <= x
Winner == CHOOSE i \in 1..RsCount :
              /\ rs_scores[i] = MaxScore
              /\ \A j \in 1..(i - 1) : rs_scores[j] < MaxScore

\* C4, as claimed: every non-empty candidate list resolves to a non-empty id.
C4_NeverEmptyId ==
    (Resolved /\ RsCount > 0) => Truthy(rs_result)

\* C4, amended: a non-empty candidate list resolves to a non-empty id exactly
\* when the first candidate with the highest score has one (and that score is
\* 0 or more) or the first candidate of the response has one; the result is
\* then that id.
C4_NonEmptyIfWinnerOrFirstHasId ==
    (Resolved /\ RsCount > 0) =>
        IF MaxScore > InitialBestScore /\ Truthy(RsId(Winner))
        THEN rs_result = RsId(Winner)
        ELSE /\ rs_result = RsId(1)
             /\ Truthy(rs_result) <=> Truthy(RsId(1))

\* the candidate with the highest score has no id and the resolver fell back
\* to the id of the first candidate
C4_Witness ==
    /\ Resolved
    /\ RsCount >= 2
    /\ MaxScore > InitialBestScore
    /\ Winner # 1
    /\ ~Truthy(RsId(Winner))
    /\ Truthy(RsId(1))
    /\ rs_result = RsId(1)

\* C5: a candidate with a non-empty id whose score is strictly higher than
\* every other candidate's is the one the resolver returns, wherever it is
\* in the list and whatever the sign of the scores.
C5_StrictlyHighestIsReturned ==
    Resolved =>
        \A i \in 1..RsCount :
            (/\ Truthy(RsId(i))
             /\ \A j \in 1..RsCount : j # i => rs_scores[j] < rs_scores[i])
            => rs_result = RsId(i)

\* C6: when several candidates with non-empty ids share the highest score,
\* the resolver returns the id of the first of them.
C6_FirstOfTiedIsReturned ==
    (Resolved /\ RsCount > 0) =>
        LET tied == {i \in 1..RsCount : rs_scores[i] = MaxScore}
        IN (Cardinality(tied) >= 2 /\ \A i \in tied : Truthy(RsId(i)))
           => rs_result = RsId(Winner)

\* the parts of the score of candidate m, as the claim states them
NameScore(m) == IF normalize_name(PrefName(m)) = RsTarget THEN 100 ELSE 0
MatchingSynonyms(m) ==
    Cardinality({k \in 1..Len(Synonyms(m)) : normalize_name(Synonyms(m)[k]) = RsTarget})
HasScore(m) == "score" \in DOMAIN m
\* floor(v) and v truncated towards zero, of the number v = twice / 2
FloorOfHalves(twice) == twice \div 2
TruncationOfHalves(twice) ==
    IF twice % 2 = 0 THEN twice \div 2
    ELSE IF twice > 0 THEN (twice - 1) \div 2
    ELSE (twice + 1) \div 2

\* C7, as claimed: the score is 100 for a matching preferred name, plus 80 for
\* each matching synonym, plus floor(externalScore) for a numeric score.
C7_ScoreWithFloor ==
    Resolved =>
        \A i \in 1..RsCount :
            rs_scores[i] =
                NameScore(RsMolecules[i]) + 80 * MatchingSynonyms(RsMolecules[i])
                + (IF HasScore(RsMolecules[i]) /\ RsMolecules[i].score.kind = "number"
                   THEN FloorOfHalves(RsMolecules[i].score.twice) ELSE 0)

\* C7, amended: the external score is added truncated towards zero (int()),
\* not floored, and a JSON boolean counts as the number 0 or 1.
C7_ScoreWithTruncation ==
    Resolved =>
        \A i \in 1..RsCount :
            rs_scores[i] =
                NameScore(RsMolecules[i]) + 80 * MatchingSynonyms(RsMolecules[i])
                + (IF HasScore(RsMolecules[i])
                      /\ RsMolecules[i].score.kind \in {"number", "bool"}
                   THEN TruncationOfHalves(RsMolecules[i].score.twice) ELSE 0)

\* a candidate whose preferred name and two synonyms match and whose external
\* score is -2.5 was scored 100 + 160 - 2
C7_Witness ==
    /\ Resolved
    /\ RsCount = 1
    /\ NameScore(RsMolecules[1]) = 100
    /\ MatchingSynonyms(RsMolecules[1]) = 2
    /\ HasScore(RsMolecules[1])
    /\ RsMolecules[1].score = PyNumber(-5)
    /\ rs_scores = <<258>>

(***************************************************************************)
(* clinical_trials.py: fetch_studies reads a list endpoint page by page.   *)
(* The endpoint is a function from the cursor of a request (FirstPage for  *)
(* a request without pageToken) to the reply it gives.                     *)
(***************************************************************************)
PageSize == 100
StatusOK == 200
FirstPage == ""
CursorNames == <<"c1", "c2", "c3", "c4", "c5">>
Cursors == {CursorNames[i] : i \in 1..(MaxPages - 1)}
PageKeys == {FirstPage} \cup Cursors

\* the bodies a page can have: "studies" absent or a list of one or two
\* studies, "nextPageToken" absent, empty or a cursor
StudyLists == {<<"NCT1">>, <<"NCT2", "NCT3">>}
PageBodies ==
    {st @@ tok : st \in {EmptyDict} \cup {[studies |-> l] : l \in StudyLists},
                 tok \in {EmptyDict} \cup {[nextPageToken |-> t] : t \in PageKeys}}
PageReply(b) == [net |-> "ok", status_code |-> StatusOK, json |-> b]
ErrorPage == [net |-> "ok", status_code |-> 500]
PageReplies == {NetFail, ErrorPage} \cup {PageReply(b) : b \in PageBodies}
Endpoints == [PageKeys -> PageReplies]

\* params that never carry the cursor
ParamsOfFirstPage(drug_name, page_token) ==
    [query_term |-> drug_name, pageSize |-> PageSize, format |-> "json"]

\* the params dict of one request
Params(drug_name, page_token) ==
    [query_term |-> drug_name, pageSize |-> PageSize, format |-> "json"]
    @@ (IF Truthy(page_token) THEN [pageToken |-> page_token] ELSE EmptyDict)

\* requests.get(base_url, params=params) against the endpoint
requests_get(server, params) == server[DictGet(params, "pageToken", FirstPage)]

GetCall(params) == [call |-> "requests.get", params |-> params]
SleepCall == [call |-> "time.sleep"]
Gets(log) == SelectSeq(log, LAMBDA e : e.call = "requests.get")
Sleeps(log) == SelectSeq(log, LAMBDA e : e.call = "time.sleep")

\* fetch_studies returns a new empty list whatever it has accumulated
StudiesReturnEmpty(studies) ==
    /\ fs_pc' = "returned"
    /\ fs_return' = PyList(<<>>)

\* fetch_studies leaves its loop and returns studies
StudiesReturn(studies) ==
    /\ fs_pc' = "returned"
    /\ fs_return' = PyList(studies)

\* one iteration of the loop up to the sleep: the request, the status test,
\* the extension of studies and the test of the next page token
FetchPage ==
    /\ fs_pc = "get"
    /\ Len(Gets(fs_log)) < MaxRequests
    /\ LET params == Params(Asa, fs_page_token)
           response == requests_get(fs_server, params)
       IN /\ fs_log' = Append(fs_log, GetCall(params))
          /\ IF response.net = "fail"
             THEN /\ fs_pc' = "raised"
                  /\ UNCHANGED <<fs_studies, fs_page_token, fs_return>>
             ELSE IF response.status_code # StatusOK
             THEN /\ StudiesReturn(fs_studies)
                  /\ UNCHANGED <<fs_studies, fs_page_token>>
             ELSE LET data == response.json
                      studies == fs_studies \o DictGet(data, "studies", <<>>)
                      page_token == IdGet(data, "nextPageToken")
                  IN /\ fs_studies' = studies
                     /\ fs_page_token' = page_token
                     /\ IF ~Truthy(page_token)
                        THEN StudiesReturn(studies)
                        ELSE /\ fs_pc' = "sleep"
                             /\ UNCHANGED fs_return
    /\ UNCHANGED <<fs_server, orchVars, resVars, flVars, nmVars>>

\* time.sleep(0.5) at the end of an iteration
Sleep ==
    /\ fs_pc = "sleep"
    /\ fs_log' = Append(fs_log, SleepCall)
    /\ fs_pc' = "get"
    /\ UNCHANGED <<fs_server, fs_studies, fs_page_token, fs_return>>
    /\ UNCHANGED <<orchVars, resVars, flVars, nmVars>>

\* fetch_studies(drug_name) is called against some endpoint
InitStudies ==
    /\ MainStarts(1)
    /\ ResolverIdle
    /\ FlattenIdle
    /\ NormalizerIdle
    /\ fs_server \in Endpoints
    /\ fs_pc = "get"
    /\ fs_studies = <<>>
    /\ fs_page_token = NoneId
    /\ fs_log = <<>>
    /\ fs_return = Unset

NextStudies ==
    \/ FetchPage
    \/ Sleep

SpecStudies == InitStudies /\ [][NextStudies]_vars

(***************************************************************************)
(* Claims about fetch_studies, checked under SpecStudies.                  *)
(***************************************************************************)
IsPage(reply) == reply.net = "ok" /\ reply.status_code = StatusOK
NextCursor(reply) == IdGet(reply.json, "nextPageToken")
ItemsOf(reply) == DictGet(reply.json, "studies", <<>>)

\* the cursors of the pages the endpoint serves one after the other from the
\* first page on, up to a page without a next cursor; <<>> when the endpoint
\* does not serve such a list within MaxPages pages
RECURSIVE PageChain(_, _)
PageChain(key, seen) ==
    IF Len(seen) >= MaxPages \/ ~IsPage(fs_server[key]) THEN <<>>
    ELSE IF ~Truthy(NextCursor(fs_server[key])) THEN Append(seen, key)
    ELSE PageChain(NextCursor(fs_server[key]), Append(seen, key))
ServedPages == PageChain(FirstPage, <<>>)

RECURSIVE ItemsOfPages(_)
ItemsOfPages(keys) ==
    IF keys = <<>> THEN <<>>
    ELSE ItemsOf(fs_server[Head(keys)]) \o ItemsOfPages(Tail(keys))

\* C10: against an endpoint that serves k >= 1 pages, the last one without a
\* next cursor, fetch_studies makes at most k requests, has returned once it
\* has made k, sent with each request after the first the cursor of the page
\* before, returned the items of the k pages in page order, and slept exactly
\* between two consecutive requests (k - 1 times, not after the last page).
C10_DepaginationOfKPages ==
    LET k == Len(ServedPages)
        gets == Gets(fs_log)
    IN k >= 1 =>
        /\ Len(gets) <= k
        /\ fs_pc # "raised"
        /\ Len(gets) = k <=> fs_pc = "returned"
        /\ gets # <<>> => "pageToken" \notin DOMAIN gets[1].params
        /\ \A i \in 2..Len(gets) :
               /\ "pageToken" \in DOMAIN gets[i].params
               /\ gets[i].params.pageToken = NextCursor(fs_server[ServedPages[i - 1]])
        /\ \A i \in 1..Len(fs_log) :
               fs_log[i].call = (IF i % 2 = 1 THEN "requests.get" ELSE "time.sleep")
        /\ fs_pc = "returned" =>
               /\ fs_return = PyList(ItemsOfPages(ServedPages))
               /\ Len(Sleeps(fs_log)) = k - 1
               /\ fs_log[Len(fs_log)].call = "requests.get"

\* a list of three pages with different items has been read to its end
C10_Witness ==
    /\ Len(ServedPages) = 3
    /\ fs_pc = "returned"
    /\ Len(Gets(fs_log)) = 3
    /\ Len(Sleeps(fs_log)) = 2
    /\ fs_return = PyList(<<"NCT1", "NCT2", "NCT3", "NCT1">>)

\* the reply the endpoint gave to the i-th request of the log
ReplyTo(i) == requests_get(fs_server, Gets(fs_log)[i].params)
RefusedAt(i) == ReplyTo(i).net = "ok" /\ ReplyTo(i).status_code # StatusOK

\* the items of the replies to the first n requests, in order
RECURSIVE ItemsReceived(_)
ItemsReceived(n) ==
    IF n = 0 THEN <<>> ELSE ItemsReceived(n - 1) \o ItemsOf(ReplyTo(n))

\* C17: when a request is answered with a status other than 200, that
\* request is the last call fetch_studies makes, it has returned without
\* raising, and what it returned is the plain list of the items of the pages
\* received before (empty for the first page).
C17_StopsOnBadStatus ==
    \A i \in 1..Len(Gets(fs_log)) :
        RefusedAt(i) =>
            /\ i = Len(Gets(fs_log))
            /\ fs_log[Len(fs_log)].call = "requests.get"
            /\ fs_pc = "returned"
            /\ fs_return = PyList(ItemsReceived(i - 1))
            /\ fs_return = PyList(fs_studies)

\* the third request was refused after two pages with items
C17_Witness ==
    /\ Len(Gets(fs_log)) = 3
    /\ RefusedAt(3)
    /\ fs_pc = "returned"
    /\ fs_return = PyList(<<"NCT1", "NCT2", "NCT3">>)

(***************************************************************************)
(* flatten_record on its own: the record is drawn from the records below,  *)
(* FlattenCall applies the function twice.                                 *)
(***************************************************************************)
\* a key that is present with value v, or absent
Maybe(k, values) == {EmptyDict} \cup {[x \in {k} |-> v] : v \in values}

PropertiesDoc == [full_mwt |-> "180.16", alogp |-> "1.31"]
StructuresDoc == [canonical_smiles |-> "CC(=O)Oc1ccccc1C(=O)O"]

\* molecule bodies: empty, or with the nested dicts absent, null, empty or filled
MoleculeDocs ==
    {EmptyDict} \cup
    {[pref_name |-> "ASPIRIN", max_phase |-> "4"] @@ props @@ structs :
        props \in Maybe("molecule_properties", {PyNone, EmptyDict, PropertiesDoc}),
        structs \in Maybe("molecule_structures", {PyNone, StructuresDoc})}

ListsUpTo(n) == UNION {[1..k -> {"x"}] : k \in 0..n}

\* the records process_drug returns, with any of their fields absent or empty
Records ==
    {[drug_name |-> Asa] @@ cid @@ err @@ mol @@ drug @@ mech @@ act :
        cid \in Maybe("chembl_id", {NoneId, "CHEMBL25"}),
        err \in Maybe("error", {"not_found"}),
        mol \in Maybe("molecule", MoleculeDocs),
        drug \in Maybe("drug", {EmptyDict, DrugDoc}),
        mech \in Maybe("mechanism", ListsUpTo(MaxListLen)),
        act \in Maybe("activities", ListsUpTo(MaxListLen))}

\* flattened.append(flatten_record(rec)), and the same call once more
FlattenCall ==
    /\ fl_pc = "call"
    /\ fl_row' = flatten_record(fl_rec)
    /\ fl_again' = flatten_record(fl_rec)
    /\ fl_pc' = "done"
    /\ UNCHANGED <<fl_rec, orchVars, resVars, fsVars, nmVars>>

InitFlatten ==
    /\ MainStarts(1)
    /\ ResolverIdle
    /\ StudiesIdle
    /\ NormalizerIdle
    /\ fl_pc = "call"
    /\ fl_rec \in Records
    /\ fl_row = EmptyDict
    /\ fl_again = EmptyDict

NextFlatten == FlattenCall

SpecFlatten == InitFlatten /\ [][NextFlatten]_vars

(***************************************************************************)
(* Claims about flatten_record, checked under SpecFlatten.                 *)
(***************************************************************************)
MoleculeColumns == {"pref_name", "max_phase", "first_approval", "molecule_type",
                    "therapeutic_flag", "oral", "parenteral", "topical"}
PropertyColumns == {"full_mwt", "alogp", "cx_logp", "hba", "hbd", "psa", "rtb",
                    "full_molformula"}
StructureColumns == {"canonical_smiles", "standard_inchi", "standard_inchi_key"}
FlatColumns ==
    {"drug_name", "chembl_id", "molecule_form", "activities_count",
     "mechanisms_count", "has_drug_record"}
    \cup MoleculeColumns \cup PropertyColumns \cup StructureColumns

\* the dict under key k of d, when d has one that is not null
HasDict(d, k) == k \in DOMAIN d /\ d[k] # PyNone
\* the value of column k when it comes from the dict under key outer of d
ColumnFrom(d, outer, k) ==
    IF HasDict(d, outer) /\ k \in DOMAIN d[outer] THEN d[outer][k] ELSE NoneId
MoleculeOf(rec) == IF HasDict(rec, "molecule") THEN rec.molecule ELSE EmptyDict

\* C15: on every record flatten_record returns a row with the same 25
\* columns; a column whose nested field is absent is null; the two counts
\* are the lengths of the lists, 0 for an absent list; has_drug_record is
\* true exactly for a non-empty drug dict; a second call gives the same row.
C15_FlattenIsTotal ==
    fl_pc = "done" =>
        /\ DOMAIN fl_row = FlatColumns
        /\ Cardinality(FlatColumns) = 25
        /\ fl_again = fl_row
        /\ fl_row.drug_name = fl_rec.drug_name
        /\ fl_row.chembl_id =
               (IF "chembl_id" \in DOMAIN fl_rec THEN fl_rec.chembl_id ELSE NoneId)
        /\ \A k \in MoleculeColumns : fl_row[k] = ColumnFrom(fl_rec, "molecule", k)
        /\ fl_row.molecule_form = ColumnFrom(fl_rec, "molecule", "structure_type")
        /\ \A k \in PropertyColumns :
               fl_row[k] = ColumnFrom(MoleculeOf(fl_rec), "molecule_properties", k)
        /\ \A k \in StructureColumns :
               fl_row[k] = ColumnFrom(MoleculeOf(fl_rec), "molecule_structures", k)
        /\ fl_row.activities_count =
               (IF "activities" \in DOMAIN fl_rec THEN Len(fl_rec.activities) ELSE 0)
        /\ fl_row.mechanisms_count =
               (IF "mechanism" \in DOMAIN fl_rec THEN Len(fl_rec.mechanism) ELSE 0)
        /\ fl_row.has_drug_record <=>
               ("drug" \in DOMAIN fl_rec /\ fl_rec.drug # EmptyDict)

\* the not_found record was flattened: no nested field, both counts 0
C15_Witness ==
    /\ fl_pc = "done"
    /\ fl_rec = NotFoundRecord(Asa)
    /\ fl_row.pref_name = NoneId
    /\ fl_row.full_mwt = NoneId
    /\ fl_row.activities_count = 0
    /\ fl_row.mechanisms_count = 0
    /\ ~fl_row.has_drug_record

(***************************************************************************)
(* scrapper_drugs@fda_full_100.py: its normalize_name, the upper-case      *)
(* normalizer.  Both normalizers are called on the same value, drawn from  *)
(* the names below.                                                        *)
(***************************************************************************)
Digits == {"0", "1", "2", "3", "4", "5", "6", "7", "8", "9"}
Whitespace == {" ", "\t", "\n", "\r"}
Letters == {UpperCase[i] : i \in 1..Len(UpperCase)}
               \cup {LowerCase[i] : i \in 1..Len(LowerCase)}
\* the characters \w matches
WordChars == Letters \cup Digits \cup {"_"}

\* str(name): the text of a value that is not a str, here None
str(name) == IF name = NotAStr THEN <<"N", "o", "n", "e">> ELSE name

\* the place of the first ")" that "(.*?)" can reach from the start of s:
\* "." does not match a newline; 0 when there is none
RECURSIVE ClosingParen(_, _)
ClosingParen(s, i) ==
    IF i > Len(s) \/ s[i] = "\n" THEN 0
    ELSE IF s[i] = ")" THEN i
    ELSE ClosingParen(s, i + 1)

\* re.sub(r"\(.*?\)", "", name)
RECURSIVE RemoveParenthesised(_)
RemoveParenthesised(s) ==
    IF s = <<>> THEN <<>>
    ELSE IF Head(s) = "(" /\ ClosingParen(Tail(s), 1) > 0
    THEN RemoveParenthesised(SubSeq(s, ClosingParen(Tail(s), 1) + 2, Len(s)))
    ELSE <<Head(s)>> \o RemoveParenthesised(Tail(s))

\* re.sub(r"[^\w\s]", "", name)
RemovePunctuation(s) == SelectSeq(s, LAMBDA c : c \in WordChars \cup Whitespace)

\* str.strip()
RECURSIVE lstrip(_)
lstrip(s) ==
    IF s # <<>> /\ Head(s) \in Whitespace THEN lstrip(Tail(s)) ELSE s
RECURSIVE rstrip(_)
rstrip(s) ==
    IF s # <<>> /\ s[Len(s)] \in Whitespace THEN rstrip(SubSeq(s, 1, Len(s) - 1)) ELSE s
strip(s) == rstrip(lstrip(s))

\* str.upper() of one character
upper(c) ==
    IF \E i \in 1..Len(LowerCase) : LowerCase[i] = c
    THEN UpperCase[CHOOSE i \in 1..Len(LowerCase) : LowerCase[i] = c]
    ELSE c

\* normalize_name of scrapper_drugs@fda_full_100.py
normalize_name_upper(name) ==
    LET kept == strip(RemovePunctuation(RemoveParenthesised(str(name))))
    IN [i \in 1..Len(kept) |-> upper(kept[i])]

\* the values the normalizers are called on: None and the strings of up to
\* MaxNameLen of these characters
NameChars == {"a", "B", " ", "-", "_", "(", ")", "+"}
Names == {NotAStr} \cup UNION {[1..n -> NameChars] : n \in 0..MaxNameLen}

NormalizeCall ==
    /\ nm_pc = "call"
    /\ nm_lower' = normalize_name(nm_name)
    /\ nm_upper' = normalize_name_upper(nm_name)
    /\ nm_pc' = "done"
    /\ UNCHANGED <<nm_name, orchVars, resVars, fsVars, flVars>>

InitNormalizer ==
    /\ MainStarts(1)
    /\ ResolverIdle
    /\ StudiesIdle
    /\ FlattenIdle
    /\ nm_pc = "call"
    /\ nm_name \in Names
    /\ nm_lower = <<>>
    /\ nm_upper = <<>>

NextNormalizer == NormalizeCall

SpecNormalizer == InitNormalizer /\ [][NextNormalizer]_vars

(***************************************************************************)
(* Claims about the normalizers, checked under SpecNormalizer.             *)
(***************************************************************************)
HasSeparator(s) == \E i \in 1..Len(s) : s[i] \in Separators

\* C16: the two normalizers apply one rule: each maps a value that is not a
\* string to the empty key, leaves no whitespace, hyphen, underscore, comma,
\* period, semicolon, colon or slash in its result, and on every string the
\* two results are equal up to letter case.
C16_SameRuleUpToCase ==
    nm_pc = "done" =>
        /\ nm_name = NotAStr => (nm_lower = <<>> /\ nm_upper = <<>>)
        /\ ~HasSeparator(nm_lower)
        /\ ~HasSeparator(nm_upper)
        /\ nm_name # NotAStr =>
               nm_lower = [i \in 1..Len(nm_upper) |-> lower(nm_upper[i])]

=============================================================================
